---- MODULE Spec2Model ----
(***************************************************************************)
(* A model of sage_code/pre_type_one_two.py: the epsilon enumerator, the   *)
(* auxiliary prime selector, the type filter and the aggregation pipeline  *)
(* of get_pre_type_one_two_primes.  The number-theoretic backend (Sage) is *)
(* an input: its answers are drawn from small sets in the initial states.  *)
(***************************************************************************)
EXTENDS Integers, Sequences, FiniteSets, TLC

VARIABLES
    pc,                 \* position in the routine being run
    raised,             \* the exception that ended the run, "None" while there is none
    returned,           \* the value of the return statement that ended the run
    K,                  \* the number field, as the backend's answers about it
    norm_bound,         \* argument norm_bound
    heavy_filter,       \* keyword argument heavy_filter
    pop_order,          \* how set.pop() resolves its arbitrary choice in this run
    fn_eps,             \* argument eps of a direct call
    fn_prime_list,      \* argument prime_list of a direct call
    fn_eps_type,        \* argument eps_type of a direct call
    fn_epsilons,        \* argument epsilons of a direct call, as it was passed
    d,                  \* get_pre_type_one_two_epsilons: argument d
    galgp,              \* get_pre_type_one_two_epsilons: argument galgp
    epsilons,           \* remove_redundant_epsilons: the set being consumed
    epsilons_output,    \* remove_redundant_epsilons: the set being built
    epsilons_dict,      \* get_pre_type_one_two_epsilons: eps -> type
    contains_imaginary_quadratic,   \* get_aux_primes: argument of that name
    aux_primes,         \* get_aux_primes: the list being built
    good_primes,        \* get_aux_primes: split primes coprime to 6 * h_K
    list_of_gens,       \* get_aux_primes: generators of C_K not matched yet
    i,                  \* get_aux_primes: index into good_primes
    loop_curves,        \* keyword argument loop_curves
    use_PIL,            \* keyword argument use_PIL
    backend,            \* what the backend computes in this run: see Sample
    divs_from_units,    \* eps -> integer from the units
    tracking_dict,      \* position of q in aux_primes -> (eps -> integer)
    tracking_dict_inv_collapsed,    \* eps -> integer
    final_split_dict,   \* eps_type -> set of primes
    calls               \* the collaborators called so far, in order

inputs == <<K, norm_bound, loop_curves, use_PIL, heavy_filter, pop_order, backend,
            fn_eps, fn_prime_list, fn_eps_type, fn_epsilons>>
control == <<pc, raised, returned>>
eps_state == <<d, galgp, epsilons, epsilons_output, epsilons_dict>>
aux_state == <<contains_imaginary_quadratic, aux_primes, good_primes, list_of_gens, i>>

div_state == <<divs_from_units, tracking_dict, tracking_dict_inv_collapsed,
               final_split_dict, calls>>

vars == <<control, inputs, eps_state, aux_state, div_state>>

-----------------------------------------------------------------------------
(* Bounds of the model *)

\* the largest field degree d
MaxDegree == 2
\* set.pop() is left arbitrary once at most this many epsilons remain
MaxFreePop == 22
\* the longest prime_list handed to filter_ABC_primes in a direct call
MaxListLen == 2
\* the largest number of generators of the class group
MaxGens == 2
\* the seeds of the backend's integers run from 0 to this
MaxSeed == 1
\* the largest number of good basis elements of the principal ideal lattice
MaxGoodBasis == 2
\* the largest set handed to remove_redundant_epsilons in a direct call
MaxInputs == 3

\* the rational primes of the model: 2, 5, 11 are 2 mod 3; 3, 7, 11 are 3 mod 4;
\* 13 is 1 mod 12
ModelPrimes == {2, 3, 5, 7, 11, 13}

-----------------------------------------------------------------------------
(* Python values *)

None == [order |-> 0]
NoValue == [kind |-> "none"]
ListValue(s) == [kind |-> "list", list |-> s]
SetValue(s) == [kind |-> "set", set |-> s]
StrValue(s) == [kind |-> "str", str |-> s]
DictValue(f) == [kind |-> "dict", dict |-> f]

RECURSIVE SeqsUpTo(_, _)
SeqsUpTo(S, n) ==
    IF n = 0 THEN {<<>>}
    ELSE LET shorter == SeqsUpTo(S, n - 1)
         IN  shorter \cup {Append(s, x) : s \in {t \in shorter : Len(t) = n - 1}, x \in S}

\* tuple order of Python (lexicographic)
TupleLess(a, b) ==
    \E m \in 1..Len(a) :
        /\ m <= Len(b)
        /\ a[m] < b[m]
        /\ \A j \in 1..(m - 1) : a[j] = b[j]

MinTuple(S) == CHOOSE a \in S : \A b \in S \ {a} : TupleLess(a, b)
MaxTuple(S) == CHOOSE a \in S : \A b \in S \ {a} : TupleLess(b, a)

-----------------------------------------------------------------------------
(* Epsilon enumerator *)

EpsilonEntries == {0, 4, 6, 8, 12}

EpsTypes == {"quadratic", "quartic-nondiagonal", "quartic-diagonal", "sextic", "mixed"}

product(d_) == [1..d_ -> EpsilonEntries]

constant_tuple(x, d_) == [m \in 1..d_ |-> x]

\* get_eps_type with the diagonal test on the length instead of the entries
get_eps_type_len(eps) ==
    LET contains(x) == \E m \in DOMAIN eps : eps[m] = x
    IN  IF contains(6)
        THEN IF contains(4) \/ contains(8) THEN "mixed" ELSE "sextic"
        ELSE IF contains(4) \/ contains(8)
             THEN IF Len(eps) = 1 THEN "quartic-diagonal" ELSE "quartic-nondiagonal"
             ELSE "quadratic"

get_eps_type(eps) ==
    LET contains(x) == \E m \in DOMAIN eps : eps[m] = x
        as_set == {eps[m] : m \in DOMAIN eps}
    IN  IF contains(6)
        THEN IF contains(4) \/ contains(8) THEN "mixed" ELSE "sextic"
        ELSE IF contains(4) \/ contains(8)
             THEN IF Cardinality(as_set) = 1
                  THEN "quartic-diagonal"
                  ELSE "quartic-nondiagonal"
             ELSE "quadratic"

\* the complement taken in 8 instead of 12
dual_in_8(eps) == [m \in DOMAIN eps |-> IF eps[m] <= 8 THEN 8 - eps[m] ELSE 12 - eps[m]]

dual(eps) == [m \in DOMAIN eps |-> 12 - eps[m]]

\* the Galois group of a Galois field of degree n <= 3 is cyclic
CyclicGroup(n) == [order |-> n]

\* the orbit of (1, ..., d) under the regular permutation representation
G_action(galois_group) ==
    LET n == galois_group.order
    IN  {[m \in 1..n |-> ((m - 1 + k) % n) + 1] : k \in 0..(n - 1)}

gal_act_eps(eps, sigma) == [m \in DOMAIN eps |-> eps[sigma[m]]]

\* the orbit cut down to the tuples that do not come before eps
get_redundant_epsilons_upward(eps, galois_group) ==
    LET orbit == IF galois_group # None
                 THEN UNION {{gal_act_eps(eps, sigma), dual(gal_act_eps(eps, sigma))} :
                                sigma \in G_action(galois_group)}
                 ELSE {eps, dual(eps)}
    IN  {t \in orbit : t = eps \/ TupleLess(eps, t)}

get_redundant_epsilons(eps, galois_group) ==
    IF galois_group # None
    THEN UNION {{gal_act_eps(eps, sigma), dual(gal_act_eps(eps, sigma))} :
                    sigma \in G_action(galois_group)}
    ELSE {eps, dual(eps)}

epsilons_keys(d_) ==
    product(d_) \ {constant_tuple(0, d_), constant_tuple(6, d_), constant_tuple(12, d_)}

\* epsilons after an_eps is popped and its orbit removed (difference_update)
difference_update_keeps_orbit(S, an_eps, eps_orbit) == S \ {an_eps}
difference_update(S, an_eps, eps_orbit) == (S \ {an_eps}) \ eps_orbit

\* the elements set.pop() may return
PopChoices(S) ==
    CASE pop_order = "min" -> {MinTuple(S)}
      [] pop_order = "max" -> {MaxTuple(S)}
      [] OTHER -> IF Cardinality(S) <= MaxFreePop THEN S ELSE {MinTuple(S)}


\* get_pre_type_one_two_epsilons up to the call of remove_redundant_epsilons
EnumerateEpsilons ==
    /\ pc = "get_pre_type_one_two_epsilons"
    /\ epsilons' = epsilons_keys(d)
    /\ epsilons_output' = {}
    /\ pc' = IF ~heavy_filter THEN "remove_redundant_epsilons" ELSE "tag_epsilons"
    /\ UNCHANGED <<raised, returned, d, galgp, epsilons_dict, inputs, aux_state, div_state>>

\* one iteration of the while loop of remove_redundant_epsilons
PopEpsilon ==
    /\ pc = "remove_redundant_epsilons"
    /\ epsilons # {}
    /\ \E an_eps \in PopChoices(epsilons) :
          LET eps_orbit == get_redundant_epsilons(an_eps, galgp)
          IN  /\ epsilons_output' = epsilons_output \cup {an_eps}
              /\ epsilons' = difference_update(epsilons, an_eps, eps_orbit)
    /\ UNCHANGED <<pc, raised, returned, d, galgp, epsilons_dict, inputs, aux_state, div_state>>

\* the loop ends and remove_redundant_epsilons returns epsilons_output
ReturnEpsilonsOutput ==
    /\ pc = "remove_redundant_epsilons"
    /\ epsilons = {}
    /\ epsilons' = epsilons_output
    /\ pc' = "tag_epsilons"
    /\ UNCHANGED <<raised, returned, d, galgp, epsilons_output, epsilons_dict,
                   inputs, aux_state, div_state>>

\* epsilons_dict = {eps: get_eps_type(eps) for eps in epsilons_keys}
TagEpsilons ==
    /\ pc = "tag_epsilons"
    /\ epsilons_dict' = [eps \in epsilons |-> get_eps_type(eps)]
    /\ pc' = "epsilons_done"
    /\ UNCHANGED <<raised, returned, d, galgp, epsilons, epsilons_output,
                   inputs, aux_state, div_state>>

-----------------------------------------------------------------------------
(* Integers of the backend *)

Abs(n) == IF n < 0 THEN 0 - n ELSE n

RECURSIVE Euclid(_, _)
Euclid(a, b) == IF b = 0 THEN a ELSE Euclid(b, a % b)

\* gcd and lcm of two integers: never negative, gcd(0, 0) = 0, lcm(a, 0) = 0
gcd(a, b) == Euclid(Abs(a), Abs(b))
lcm(a, b) == IF a = 0 \/ b = 0 THEN 0 ELSE (Abs(a) \div gcd(a, b)) * Abs(b)

\* gcd and lcm of a list: gcd([]) = 0, lcm([]) = 1
RECURSIVE gcd_list(_)
gcd_list(s) == IF s = <<>> THEN 0 ELSE gcd(Head(s), gcd_list(Tail(s)))
RECURSIVE lcm_list(_)
lcm_list(s) == IF s = <<>> THEN 1 ELSE lcm(Head(s), lcm_list(Tail(s)))

RECURSIVE SortedSeq(_)
SortedSeq(S) ==
    IF S = {} THEN <<>>
    ELSE LET least == CHOOSE x \in S : \A y \in S : x <= y
         IN  <<least>> \o SortedSeq(S \ {least})

RECURSIVE Product(_)
Product(s) == IF s = <<>> THEN 1 ELSE Head(s) * Product(Tail(s))

-----------------------------------------------------------------------------
(* The number field K: what the backend answers about it *)

\* K.completely_split_primes(B=500)
SplitPrimeBound == 500

\* the class group with elementary divisors invs: exponent tuples
ClassElements(invs) ==
    {c \in [1..Len(invs) -> 0..2] : \A j \in 1..Len(invs) : c[j] < invs[j]}
Identity(invs) == [j \in 1..Len(invs) |-> 0]
Generator(invs, k) == [j \in 1..Len(invs) |-> IF j = k THEN 1 ELSE 0]
Inverse(invs, c) == [j \in 1..Len(invs) |-> (invs[j] - c[j]) % invs[j]]

\* C_K.gens() and C_K.order()
gens(K_) == [k \in 1..Len(K_.class_invs) |-> Generator(K_.class_invs, k)]
class_number(K_) == Product(K_.class_invs)

\* the primes of a quadratic field above p: their norms and their classes
QuadraticPrimesAbove(p, kind, invs, c) ==
    CASE kind = "split" ->
            <<[p |-> p, index |-> 1, norm |-> p, class |-> c],
              [p |-> p, index |-> 2, norm |-> p, class |-> Inverse(invs, c)]>>
      [] kind = "ramified" ->
            <<[p |-> p, index |-> 1, norm |-> p, class |-> Identity(invs)]>>
      [] OTHER ->
            <<[p |-> p, index |-> 1, norm |-> p * p, class |-> Identity(invs)]>>

\* a quadratic field: its only quadratic subfield is K itself, whose Hilbert class
\* field has degree 2 * h_K and is its own composite with K
QuadraticField(imaginary, invs, kinds, classes) ==
    [ absolute_degree |-> 2,
      degree |-> 2,
      is_galois |-> TRUE,
      galois_group |-> CyclicGroup(2),
      unit_rank |-> IF imaginary THEN 0 ELSE 1,
      subfields2 |-> << [ is_totally_imaginary |-> imaginary,
                          hilbert_class_field_degree |-> 2 * Product(invs),
                          composite_degree |-> 2 * Product(invs) ] >>,
      class_invs |-> invs,
      primes_above |->
          [p \in ModelPrimes |-> QuadraticPrimesAbove(p, kinds[p], invs, classes[p])],
      inert |-> {p \in ModelPrimes : kinds[p] = "inert"} ]

\* K.ideal(p).is_prime()
ideal_is_prime(K_, p) == p \in K_.inert

\* K.primes_above(p)
primes_above(K_, p) == K_.primes_above[p]

\* K.completely_split_primes(B): ascending
completely_split_primes(K_, B) ==
    SortedSeq({p \in ModelPrimes :
                  p <= B /\ Len(K_.primes_above[p]) = K_.absolute_degree})

AllPrimeIdeals(K_) ==
    UNION {{K_.primes_above[p][k] : k \in DOMAIN K_.primes_above[p]} : p \in ModelPrimes}

IdealBefore(a, b) ==
    \/ a.norm < b.norm
    \/ a.norm = b.norm /\ a.p < b.p
    \/ a.norm = b.norm /\ a.p = b.p /\ a.index < b.index

RECURSIVE SortedIdeals(_)
SortedIdeals(S) ==
    IF S = {} THEN <<>>
    ELSE LET first == CHOOSE a \in S : \A b \in S \ {a} : IdealBefore(a, b)
         IN  <<first>> \o SortedIdeals(S \ {first})

\* K.primes_of_bounded_norm(norm_bound)
primes_of_bounded_norm(K_, bound) ==
    SortedIdeals({q \in AllPrimeIdeals(K_) : q.norm <= bound})

contains_imaginary_quadratic_field(K_) ==
    IF K_.absolute_degree % 2 = 1
    THEN <<FALSE, FALSE>>
    ELSE LET is_imaginary(L) == L.is_totally_imaginary
             imag_quad_subfields == SelectSeq(K_.subfields2, is_imaginary)
             contains_hilbert_class_field_of_imag_quad ==
                 \E j \in DOMAIN imag_quad_subfields :
                     /\ K_.absolute_degree
                            % imag_quad_subfields[j].hilbert_class_field_degree = 0
                     /\ imag_quad_subfields[j].composite_degree = K_.absolute_degree
         IN  <<imag_quad_subfields # <<>>, contains_hilbert_class_field_of_imag_quad>>

-----------------------------------------------------------------------------
(* Auxiliary prime selector *)

RECURSIVE remove(_, _)
remove(s, x) ==
    IF s = <<>> THEN <<>>
    ELSE IF Head(s) = x THEN Tail(s)
    ELSE <<Head(s)>> \o remove(Tail(s), x)

InList(x, s) == \E j \in DOMAIN s : s[j] = x

\* the for loop appending every matching candidate, whatever the norm bound
RECURSIVE for_candidates_unconditional(_, _, _, _, _)
for_candidates_unconditional(candidates, aux, lgens, a_good_prime, bound) ==
    IF candidates = <<>> THEN [aux_primes |-> aux, list_of_gens |-> lgens]
    ELSE LET candidate == Head(candidates)
             emergency_gen == candidate.class
         IN  IF InList(emergency_gen, lgens)
             THEN for_candidates_unconditional(Tail(candidates), Append(aux, candidate),
                                               remove(lgens, emergency_gen),
                                               a_good_prime, bound)
             ELSE for_candidates_unconditional(Tail(candidates), aux, lgens,
                                               a_good_prime, bound)

\* the for loop over the primes above a_good_prime
RECURSIVE for_candidates(_, _, _, _, _)
for_candidates(candidates, aux, lgens, a_good_prime, bound) ==
    IF candidates = <<>> THEN [aux_primes |-> aux, list_of_gens |-> lgens]
    ELSE LET candidate == Head(candidates)
             emergency_gen == candidate.class
         IN  IF InList(emergency_gen, lgens)
             THEN for_candidates(Tail(candidates),
                                 IF a_good_prime > bound THEN Append(aux, candidate) ELSE aux,
                                 remove(lgens, emergency_gen), a_good_prime, bound)
             ELSE for_candidates(Tail(candidates), aux, lgens, a_good_prime, bound)

\* the while condition with the index one short
while_condition_one_short(lgens, index, good) == lgens # <<>> /\ index + 1 < Len(good)
\* the condition of the while loop over good_primes
while_condition(lgens, index, good) == lgens # <<>> /\ index < Len(good)

\* get_aux_primes up to the while loop, or all of its else branch
BeginAuxPrimes ==
    /\ pc = "get_aux_primes"
    /\ LET base == primes_of_bounded_norm(K, norm_bound)
           completely_split_rat_primes == completely_split_primes(K, SplitPrimeBound)
           coprime(p) == gcd(p, 6 * class_number(K)) = 1
       IN  IF contains_imaginary_quadratic
           THEN /\ aux_primes' = base
                /\ good_primes' = SelectSeq(completely_split_rat_primes, coprime)
                /\ list_of_gens' = gens(K)
                /\ i' = 0
                /\ pc' = "while list_of_gens"
                /\ raised' = raised
           ELSE IF completely_split_rat_primes = <<>>
           THEN /\ aux_primes' = base
                /\ pc' = "done"
                /\ raised' = "IndexError"
                /\ UNCHANGED <<good_primes, list_of_gens, i>>
           ELSE LET a_good_prime == completely_split_rat_primes[1]
                    candidate == primes_above(K, a_good_prime)[1]
                IN  /\ aux_primes' = IF a_good_prime > norm_bound
                                        THEN Append(base, candidate)
                                        ELSE base
                    /\ pc' = "get_aux_primes returned"
                    /\ raised' = raised
                    /\ UNCHANGED <<good_primes, list_of_gens, i>>
    /\ UNCHANGED <<returned, contains_imaginary_quadratic, inputs, eps_state, div_state>>

\* one iteration of the while loop
TryGoodPrime ==
    /\ pc = "while list_of_gens"
    /\ while_condition(list_of_gens, i, good_primes)
    /\ LET a_good_prime == good_primes[i + 1]
           after == for_candidates(primes_above(K, a_good_prime), aux_primes,
                                   list_of_gens, a_good_prime, norm_bound)
       IN  /\ aux_primes' = after.aux_primes
           /\ list_of_gens' = after.list_of_gens
    /\ i' = i + 1
    /\ UNCHANGED <<control, contains_imaginary_quadratic, good_primes, inputs, eps_state, div_state>>

\* the loop is left: raise if generators remain, return aux_primes otherwise
EndAuxPrimes ==
    /\ pc = "while list_of_gens"
    /\ ~while_condition(list_of_gens, i, good_primes)
    /\ IF list_of_gens # <<>>
       THEN pc' = "done" /\ raised' = "RuntimeError"
       ELSE pc' = "get_aux_primes returned" /\ raised' = raised
    /\ UNCHANGED <<returned, aux_state, inputs, eps_state, div_state>>

-----------------------------------------------------------------------------
(* Type filter *)

\* filter_ABC_primes with the splitting test also applied to quartic-diagonal
filter_ABC_primes_split_diagonal(K_, prime_list, eps_type) ==
    LET not_prime_in_K(p) == ~ideal_is_prime(K_, p)
        quadratic(p) == not_prime_in_K(p)
        quartic(p) == p % 3 = 2 /\ not_prime_in_K(p)
        sextic(p) == p % 4 = 3 /\ not_prime_in_K(p)
        mixed(p) == p % 12 = 1 /\ not_prime_in_K(p)
    IN  CASE eps_type = "quadratic" ->
                [raised |-> "None", value |-> SelectSeq(prime_list, quadratic)]
          [] eps_type \in {"quartic-nondiagonal", "quartic-diagonal"} ->
                [raised |-> "None", value |-> SelectSeq(prime_list, quartic)]
          [] eps_type = "sextic" ->
                [raised |-> "None", value |-> SelectSeq(prime_list, sextic)]
          [] eps_type = "mixed" ->
                [raised |-> "None", value |-> SelectSeq(prime_list, mixed)]
          [] OTHER -> [raised |-> "ValueError", value |-> <<>>]

\* filter_ABC_primes that lets an unknown type through with nothing kept
filter_ABC_primes_no_raise(K_, prime_list, eps_type) ==
    LET not_prime_in_K(p) == ~ideal_is_prime(K_, p)
        quadratic(p) == not_prime_in_K(p)
        quartic_nondiagonal(p) == p % 3 = 2 /\ not_prime_in_K(p)
        quartic_diagonal(p) == p % 3 = 2
        sextic(p) == p % 4 = 3 /\ not_prime_in_K(p)
        mixed(p) == p % 12 = 1 /\ not_prime_in_K(p)
    IN  CASE eps_type = "quadratic" ->
                [raised |-> "None", value |-> SelectSeq(prime_list, quadratic)]
          [] eps_type = "quartic-nondiagonal" ->
                [raised |-> "None", value |-> SelectSeq(prime_list, quartic_nondiagonal)]
          [] eps_type = "quartic-diagonal" ->
                [raised |-> "None", value |-> SelectSeq(prime_list, quartic_diagonal)]
          [] eps_type = "sextic" ->
                [raised |-> "None", value |-> SelectSeq(prime_list, sextic)]
          [] eps_type = "mixed" ->
                [raised |-> "None", value |-> SelectSeq(prime_list, mixed)]
          [] OTHER -> [raised |-> "None", value |-> <<>>]

filter_ABC_primes(K_, prime_list, eps_type) ==
    LET not_prime_in_K(p) == ~ideal_is_prime(K_, p)
        quadratic(p) == not_prime_in_K(p)
        quartic_nondiagonal(p) == p % 3 = 2 /\ not_prime_in_K(p)
        quartic_diagonal(p) == p % 3 = 2
        sextic(p) == p % 4 = 3 /\ not_prime_in_K(p)
        mixed(p) == p % 12 = 1 /\ not_prime_in_K(p)
    IN  CASE eps_type = "quadratic" ->
                [raised |-> "None", value |-> SelectSeq(prime_list, quadratic)]
          [] eps_type = "quartic-nondiagonal" ->
                [raised |-> "None", value |-> SelectSeq(prime_list, quartic_nondiagonal)]
          [] eps_type = "quartic-diagonal" ->
                [raised |-> "None", value |-> SelectSeq(prime_list, quartic_diagonal)]
          [] eps_type = "sextic" ->
                [raised |-> "None", value |-> SelectSeq(prime_list, sextic)]
          [] eps_type = "mixed" ->
                [raised |-> "None", value |-> SelectSeq(prime_list, mixed)]
          [] OTHER -> [raised |-> "ValueError", value |-> <<>>]

-----------------------------------------------------------------------------
(* Divisibility engine *)

\* the norms and determinants the backend computes are opaque integers of either
\* sign; each run reads them from this list at a place fixed by its seeds
IntegerSamples == <<78, -12, 26, 0, 36, 39, -6, 4, 13, 10>>

Sample(k) == IntegerSamples[(k % Len(IntegerSamples)) + 1]

RECURSIVE Weight(_)
Weight(eps) == IF eps = <<>> THEN 0 ELSE Len(eps) * (Head(eps) \div 2) + Weight(Tail(eps))

\* the lcm of the integers of a set
RECURSIVE lcm_set(_)
lcm_set(S) ==
    IF S = {} THEN 1
    ELSE LET x == CHOOSE y \in S : TRUE IN lcm(x, lcm_set(S \ {x}))

\* (alpha_to_eps - 1).norm() and (alpha_to_eps - nm_q ** (12 * order)).norm()
A_norm(n, eps) == Sample(backend.AB + 3 * n + Weight(eps))
B_norm(n, eps) == Sample(backend.AB + n + Weight(eps) + 5)

\* get_AB_integers for the q at position n of aux_primes
get_AB_integers(n, eps_keys) == [eps \in eps_keys |-> lcm(A_norm(n, eps), B_norm(n, eps))]

\* the roots of the polynomials of frob_polys_to_loop: the Weil polynomials of
\* the curves over the residue field are among all Weil polynomials
betas(loop) == IF loop THEN {1} ELSE {1, 2}

\* the absolute norm N for root beta
C_norm(n, eps, beta) == Sample(backend.AB + 2 * n + Weight(eps) + 4 * beta)

\* get_C_integers: from 1, the lcm over the roots
get_C_integers(n, eps_keys, loop) ==
    [eps \in eps_keys |-> lcm_set({1} \cup {C_norm(n, eps, beta) : beta \in betas(loop)})]

\* the norms of u^eps - 1 over the generators of the unit group: the torsion
\* generator is -1 and the entries of eps are even, so its norm is 0
unit_norms(K_, eps) ==
    <<0>> \o [u \in 1..K_.unit_rank |-> Sample(backend.U + Weight(eps) + 7 * u)]

get_U_integers(K_, eps_keys) == [eps \in eps_keys |-> gcd_list(unit_norms(K_, eps))]

\* the determinants of the good basis elements: two beta matrices each
pil_int(v, mat, eps) == Sample(backend.PIL + 3 * v + Weight(eps) + mat)

RECURSIVE running_gcd(_, _)
running_gcd(v, eps) ==
    IF v = 0 THEN 0
    ELSE gcd(lcm_set({1} \cup {pil_int(v, mat, eps) : mat \in 1..2}), running_gcd(v - 1, eps))

\* get_PIL_integers: the gcd over the good basis elements, from 0
get_PIL_integers(eps_keys) ==
    [eps \in eps_keys |-> running_gcd(backend.good_basis_elements, eps)]

\* the unification with the lcm and the gcd exchanged
unify_exchanged(q_norm, AB, C, U) == lcm(gcd(q_norm, gcd(AB, C)), U)
\* unified_dict[eps]
unify(q_norm, AB, C, U) == gcd(lcm_list(<<q_norm, AB, C>>), U)

\* the collapse as an lcm over the auxiliary primes
collapse_lcm(tracking, eps) ==
    lcm_list([n \in DOMAIN tracking |-> tracking[n][eps]])
\* gcd(list(q_dict.values()))
collapse(tracking, eps) ==
    gcd_list([n \in DOMAIN tracking |-> tracking[n][eps]])

\* the PIL step as an lcm
refine_lcm(value, PIL_integer) == lcm(value, PIL_integer)
\* gcd(tracking_dict_inv_collapsed[eps], PIL_integers_dict[eps])
refine(value, PIL_integer) == gcd(value, PIL_integer)

RECURSIVE Valuation(_, _)
Valuation(n, p) == IF n % p # 0 THEN 0 ELSE 1 + Valuation(n \div p, p)

RECURSIVE Power(_, _)
Power(p, k) == IF k = 0 THEN 1 ELSE p * Power(p, k - 1)

\* the primes of the model, ascending
PrimeList == SortedSeq(ModelPrimes)

\* the largest k with n a k-th power, for n >= 2
Exponent(n) == gcd_list([k \in DOMAIN PrimeList |-> Valuation(n, PrimeList[k])])

\* Integer.is_perfect_power(): 0 and 1 are perfect powers
is_perfect_power(n) == IF n \in {0, 1} THEN TRUE ELSE Exponent(n) >= 2

\* Integer.perfect_power()[0]
perfect_power_base(n) ==
    IF n \in {0, 1} THEN n
    ELSE LET e == Exponent(n)
         IN  Product([k \in DOMAIN PrimeList |->
                         Power(PrimeList[k], Valuation(n, PrimeList[k]) \div e)])

\* Integer.prime_divisors(), ascending; the integer is not 0
prime_divisors(n) == SelectSeq(PrimeList, LAMBDA p : n % p = 0)

ToSet(s) == {s[k] : k \in DOMAIN s}

\* the per-type integer taken as a gcd
type_integer_gcd(eps_dict, collapsed, eps_type) ==
    gcd_list(SortedSeq({collapsed[eps] : eps \in {e \in DOMAIN eps_dict : eps_dict[e] = eps_type}}))
\* lcm(list(eps_type_tracking_dict_inv.values()))
type_integer(eps_dict, collapsed, eps_type) ==
    lcm_set({collapsed[eps] : eps \in {e \in DOMAIN eps_dict : eps_dict[e] = eps_type}})

\* the reduction of a perfect power to its base
reduce_perfect_power(n) == IF is_perfect_power(n) THEN perfect_power_base(n) ELSE n

\* the loop over the epsilon types, the union and the sort; prime_divisors
\* raises ArithmeticError on 0, after the types that came before in the set's
\* order were split
split_and_filter(Kgal, eps_dict, collapsed) ==
    LET types == {eps_dict[e] : e \in DOMAIN eps_dict}
        eps_type_output ==
            [t \in types |-> reduce_perfect_power(type_integer(eps_dict, collapsed, t))]
        nonzero == {t \in types : eps_type_output[t] # 0}
        split == [t \in nonzero |->
                     ToSet(filter_ABC_primes(Kgal, prime_divisors(eps_type_output[t]), t).value)]
    IN  IF nonzero # types
        THEN [raised |-> "ArithmeticError", final_split_dict |-> split, output |-> <<>>]
        ELSE [raised |-> "None", final_split_dict |-> split,
              output |-> SortedSeq(UNION {split[t] : t \in types})]

\* K.galois_closure("b"): a Galois field is its own closure
galois_closure(K_) == K_

-----------------------------------------------------------------------------
(* get_pre_type_one_two_primes *)

\* the check that lets every field through
CheckHilbertClassField_skipped ==
    /\ pc = "get_pre_type_one_two_primes"
    /\ contains_imaginary_quadratic' = contains_imaginary_quadratic_field(K)[1]
    /\ pc' = "get_aux_primes"
    /\ UNCHANGED <<raised, returned, aux_primes, good_primes, list_of_gens, i,
                   inputs, eps_state, div_state>>

\* contains_imaginary_quadratic_field(K) and the raise on its second answer
CheckHilbertClassField ==
    /\ pc = "get_pre_type_one_two_primes"
    /\ LET answer == contains_imaginary_quadratic_field(K)
       IN  /\ contains_imaginary_quadratic' = answer[1]
           /\ IF answer[2]
              THEN pc' = "done" /\ raised' = "ValueError"
              ELSE pc' = "get_aux_primes" /\ raised' = raised
    /\ UNCHANGED <<returned, aux_primes, good_primes, list_of_gens, i,
                   inputs, eps_state, div_state>>

\* embeddings, and the call of get_pre_type_one_two_epsilons
CallEpsilons ==
    /\ pc = "get_aux_primes returned"
    /\ d' = K.degree
    /\ galgp' = IF K.is_galois THEN K.galois_group ELSE None
    /\ pc' = "get_pre_type_one_two_epsilons"
    /\ UNCHANGED <<raised, returned, epsilons, epsilons_output, epsilons_dict,
                   inputs, aux_state, div_state>>

\* divs_from_units = get_U_integers(K, epsilons, embeddings)
ComputeUnitDivisibilities ==
    /\ pc = "epsilons_done"
    /\ divs_from_units' = get_U_integers(K, DOMAIN epsilons_dict)
    /\ pc' = "tracking_dict"
    /\ UNCHANGED <<raised, returned, tracking_dict, tracking_dict_inv_collapsed,
                   final_split_dict, calls, inputs, eps_state, aux_state>>

\* the loop over aux_primes that fills tracking_dict
ComputeTrackingDict ==
    /\ pc = "tracking_dict"
    /\ tracking_dict' =
          [n \in 1..Len(aux_primes) |->
              LET AB_integers_dict == get_AB_integers(n, DOMAIN epsilons_dict)
                  C_integers_dict == get_C_integers(n, DOMAIN epsilons_dict, loop_curves)
                  q_norm == aux_primes[n].norm
              IN  [eps \in DOMAIN epsilons_dict |->
                      unify(q_norm, AB_integers_dict[eps], C_integers_dict[eps],
                            divs_from_units[eps])]]
    /\ pc' = "collapse"
    /\ UNCHANGED <<raised, returned, divs_from_units, tracking_dict_inv_collapsed,
                   final_split_dict, calls, inputs, eps_state, aux_state>>

\* the gcd across all auxiliary primes, one integer for each epsilon
CollapseTrackingDict ==
    /\ pc = "collapse"
    /\ tracking_dict_inv_collapsed' =
          [eps \in DOMAIN epsilons_dict |-> collapse(tracking_dict, eps)]
    /\ pc' = "PIL"
    /\ UNCHANGED <<raised, returned, divs_from_units, tracking_dict,
                   final_split_dict, calls, inputs, eps_state, aux_state>>

\* if use_PIL and h_K > 1: the gcd with the PIL integers
UsePrincipalIdealLattice ==
    /\ pc = "PIL"
    /\ IF use_PIL /\ class_number(K) > 1
       THEN LET PIL_integers_dict == get_PIL_integers(DOMAIN epsilons_dict)
            IN  /\ tracking_dict_inv_collapsed' =
                      [eps \in DOMAIN epsilons_dict |->
                          refine(tracking_dict_inv_collapsed[eps], PIL_integers_dict[eps])]
                /\ calls' = Append(calls, "get_PIL_integers")
       ELSE UNCHANGED <<tracking_dict_inv_collapsed, calls>>
    /\ pc' = "heavy_filter"
    /\ UNCHANGED <<raised, returned, divs_from_units, tracking_dict,
                   final_split_dict, inputs, eps_state, aux_state>>

\* the delegate's result put in ascending order before it is returned
HeavyFilter_sorted ==
    /\ pc = "heavy_filter"
    /\ heavy_filter
    /\ calls' = Append(calls, "character_enumeration_filter")
    /\ returned' = ListValue(SortedSeq(ToSet(backend.character_enumeration_filter)))
    /\ pc' = "done"
    /\ UNCHANGED <<raised, divs_from_units, tracking_dict, tracking_dict_inv_collapsed,
                   final_split_dict, inputs, eps_state, aux_state>>

\* if heavy_filter: return character_enumeration_filter(...)
HeavyFilter ==
    /\ pc = "heavy_filter"
    /\ heavy_filter
    /\ calls' = Append(calls, "character_enumeration_filter")
    /\ returned' = ListValue(backend.character_enumeration_filter)
    /\ pc' = "done"
    /\ UNCHANGED <<raised, divs_from_units, tracking_dict, tracking_dict_inv_collapsed,
                   final_split_dict, inputs, eps_state, aux_state>>

\* otherwise: split by type, filter, take the union, sort and return
SplitAndFilter ==
    /\ pc = "heavy_filter"
    /\ ~heavy_filter
    /\ \E result \in {split_and_filter(galois_closure(K), epsilons_dict,
                                        tracking_dict_inv_collapsed)} :
           /\ raised' = result.raised
           /\ \E done \in SUBSET DOMAIN result.final_split_dict :
                 /\ result.raised = "None" => done = DOMAIN result.final_split_dict
                 /\ final_split_dict' = [t \in done |-> result.final_split_dict[t]]
                 /\ calls' = calls \o [k \in 1..Cardinality(done) |-> "filter_ABC_primes"]
           /\ returned' = IF result.raised = "None" THEN ListValue(result.output) ELSE NoValue
    /\ pc' = "done"
    /\ UNCHANGED <<divs_from_units, tracking_dict, tracking_dict_inv_collapsed,
                   inputs, eps_state, aux_state>>

-----------------------------------------------------------------------------
(* Direct calls of the pure functions *)

\* strings a caller may pass as eps_type: the five types, the docstring's
\* 'quartic', and strings no type bears
EpsTypeArguments == EpsTypes \cup {"quartic", "cubic", ""}

AllTuples == UNION {product(n) : n \in 1..MaxDegree}

GaloisGroupArguments(eps) == {None, CyclicGroup(Len(eps))}

Call_get_eps_type ==
    /\ pc = "call get_eps_type"
    /\ returned' = StrValue(get_eps_type(fn_eps))
    /\ pc' = "returned get_eps_type"
    /\ UNCHANGED <<raised, inputs, eps_state, aux_state, div_state>>

Call_get_redundant_epsilons ==
    /\ pc = "call get_redundant_epsilons"
    /\ returned' = SetValue(get_redundant_epsilons(fn_eps, galgp))
    /\ pc' = "returned get_redundant_epsilons"
    /\ UNCHANGED <<raised, inputs, eps_state, aux_state, div_state>>

\* remove_redundant_epsilons(epsilons, galois_group): epsilons_output = set()
Call_remove_redundant_epsilons ==
    /\ pc = "call remove_redundant_epsilons"
    /\ epsilons' = fn_epsilons
    /\ epsilons_output' = {}
    /\ pc' = "remove_redundant_epsilons"
    /\ UNCHANGED <<raised, returned, d, galgp, epsilons_dict, inputs, aux_state, div_state>>

Call_filter_ABC_primes ==
    /\ pc = "call filter_ABC_primes"
    /\ LET r == filter_ABC_primes(K, fn_prime_list, fn_eps_type)
       IN  /\ raised' = r.raised
           /\ returned' = IF r.raised = "None" THEN ListValue(r.value) ELSE NoValue
    /\ pc' = "left filter_ABC_primes"
    /\ UNCHANGED <<inputs, eps_state, aux_state, div_state>>

-----------------------------------------------------------------------------
(* The fields and arguments the runs are started with *)

SplittingKinds == {"split", "inert", "ramified"}

\* the elementary divisors of the class groups: k generators of order 2, or of 3
ClassGroups == {[k \in 1..n |-> o] : n \in 0..MaxGens, o \in {2, 3}}

\* the classes given to the primes above a split prime: trivial, a generator of
\* the class group, or the inverse of one
ClassChoices(invs) ==
    {Identity(invs)}
    \cup {Generator(invs, k) : k \in 1..Len(invs)}
    \cup {Inverse(invs, Generator(invs, k)) : k \in 1..Len(invs)}

\* the quadratic fields in which the primes of `varying` split, ramify or stay
\* prime, the other primes of the model stay prime, and the primes above the
\* split primes of `classed` have any of the classes above
QuadraticFields(groups, background, varying, classed) ==
    UNION {
      UNION {
        LET kinds == [p \in ModelPrimes |-> IF p \in varying THEN g[p] ELSE background[p]]
            split == {p \in classed : kinds[p] = "split"}
        IN  { QuadraticField(imaginary, invs, kinds,
                  [p \in ModelPrimes |-> IF p \in split THEN c[p] ELSE Identity(invs)]) :
                imaginary \in BOOLEAN, c \in [split -> ClassChoices(invs)] }
        : g \in [varying -> SplittingKinds] }
      : invs \in groups }

AllInert == [p \in ModelPrimes |-> "inert"]

\* the fields get_aux_primes is run on
AuxFields == QuadraticFields(ClassGroups, AllInert, {2, 5, 7, 11}, {5, 7, 11})

\* the fields get_pre_type_one_two_primes is run on: 2 ramifies, 3 and 13 split
\* into principal primes, 7 and 11 stay prime, 5 varies; class number 1, 2 or 3
PipelineFields ==
    QuadraticFields({<<>>, <<2>>, <<3>>},
                    [p \in ModelPrimes |->
                        CASE p = 2 -> "ramified"
                          [] p \in {3, 13} -> "split"
                          [] OTHER -> "inert"],
                    {5}, {5})

\* what character_enumeration_filter may return
HeavyResults == {<<>>, <<13, 2>>}

NoBackend ==
    [AB |-> 0, U |-> 0, PIL |-> 0, good_basis_elements |-> 0,
     character_enumeration_filter |-> <<>>]

\* the seeds of the backend's integers; an input the run never reads is left at
\* its default
Backends(K_, PIL_used, heavy) ==
    [ AB : 0..MaxSeed,
      U : IF K_.unit_rank > 0 THEN 0..MaxSeed ELSE {0},
      PIL : IF PIL_used THEN 0..MaxSeed ELSE {0},
      good_basis_elements : IF PIL_used THEN 0..MaxGoodBasis ELSE {0},
      character_enumeration_filter : IF heavy THEN HeavyResults ELSE {<<>>} ]

\* fields that differ only in the primes that stay prime
FilterFields ==
    { QuadraticField(FALSE, <<>>,
          [p \in ModelPrimes |-> IF p \in inert THEN "inert" ELSE "split"],
          [p \in ModelPrimes |-> <<>>]) :
        inert \in {{}, {2, 7}, {3, 5, 13}, {11, 13}, ModelPrimes} }

DefaultField == CHOOSE F \in FilterFields : F.inert = {}

NormBounds == {1, 4, 6, 50}

IdleFn == fn_eps = <<0>> /\ fn_prime_list = <<>> /\ fn_eps_type = "" /\ fn_epsilons = {}

IdleDiv ==
    /\ divs_from_units = <<>> /\ tracking_dict = <<>>
    /\ tracking_dict_inv_collapsed = <<>> /\ final_split_dict = <<>>
    /\ calls = <<>>

IdleFlags == loop_curves = FALSE /\ use_PIL = FALSE /\ backend = NoBackend

IdleEps ==
    /\ d = 1 /\ galgp = None
    /\ epsilons = {} /\ epsilons_output = {} /\ epsilons_dict = <<>>

IdleAux ==
    /\ contains_imaginary_quadratic = FALSE
    /\ aux_primes = <<>> /\ good_primes = <<>> /\ list_of_gens = <<>> /\ i = 0

-----------------------------------------------------------------------------
(* Specifications *)

\* a call get_pre_type_one_two_epsilons(d, galgp, heavy_filter)
InitEps ==
    /\ pc = "get_pre_type_one_two_epsilons"
    /\ raised = "None" /\ returned = NoValue
    /\ K = DefaultField /\ norm_bound = 50
    /\ d \in 1..MaxDegree
    /\ galgp \in {None, CyclicGroup(d)}
    /\ heavy_filter \in BOOLEAN
    /\ pop_order \in {"any", "min", "max"}
    /\ epsilons = {} /\ epsilons_output = {} /\ epsilons_dict = <<>>
    /\ IdleFn /\ IdleAux /\ IdleDiv /\ IdleFlags

NextEps == EnumerateEpsilons \/ PopEpsilon \/ ReturnEpsilonsOutput \/ TagEpsilons

SpecEps == InitEps /\ [][NextEps]_vars

\* a direct call of get_eps_type, get_redundant_epsilons or filter_ABC_primes
InitFn ==
    /\ raised = "None" /\ returned = NoValue
    /\ norm_bound = 50 /\ heavy_filter = FALSE /\ pop_order = "any"
    /\ d = 1 /\ fn_epsilons = {}
    /\ epsilons = {} /\ epsilons_output = {} /\ epsilons_dict = <<>>
    /\ IdleAux /\ IdleDiv /\ IdleFlags
    /\ \/ /\ pc = "call get_eps_type"
          /\ fn_eps \in AllTuples
          /\ galgp = None /\ K = DefaultField
          /\ fn_prime_list = <<>> /\ fn_eps_type = ""
       \/ /\ pc = "call get_redundant_epsilons"
          /\ fn_eps \in AllTuples
          /\ galgp \in GaloisGroupArguments(fn_eps)
          /\ K = DefaultField
          /\ fn_prime_list = <<>> /\ fn_eps_type = ""
       \/ /\ pc = "call filter_ABC_primes"
          /\ fn_eps = <<0>> /\ galgp = None
          /\ K \in FilterFields
          /\ fn_prime_list \in SeqsUpTo(ModelPrimes, MaxListLen)
          /\ fn_eps_type \in EpsTypeArguments

NextFn == Call_get_eps_type \/ Call_get_redundant_epsilons \/ Call_filter_ABC_primes

SpecFn == InitFn /\ [][NextFn]_vars

\* the degrees of the tuples handed to remove_redundant_epsilons in a direct call
InputDegrees == {1, 2}

\* the subsets of S with at most n elements
RECURSIVE SubsetsUpTo(_, _)
SubsetsUpTo(S, n) ==
    IF n = 0 THEN {{}}
    ELSE LET smaller == SubsetsUpTo(S, n - 1)
         IN  smaller \cup {T \cup {x} : T \in smaller, x \in S}

\* a direct call remove_redundant_epsilons(epsilons, galois_group) on any set of
\* tuples of one length, with set.pop() free to return any element
InitRemove ==
    /\ pc = "call remove_redundant_epsilons"
    /\ raised = "None" /\ returned = NoValue
    /\ K = DefaultField /\ norm_bound = 50
    /\ heavy_filter = FALSE /\ pop_order = "any"
    /\ d \in InputDegrees
    /\ galgp \in {None, CyclicGroup(d)}
    /\ fn_epsilons \in SubsetsUpTo(product(d), MaxInputs)
    /\ fn_eps = <<0>> /\ fn_prime_list = <<>> /\ fn_eps_type = ""
    /\ epsilons = {} /\ epsilons_output = {} /\ epsilons_dict = <<>>
    /\ IdleAux /\ IdleDiv /\ IdleFlags

NextRemove == Call_remove_redundant_epsilons \/ PopEpsilon \/ ReturnEpsilonsOutput

\* the loop is sequential code: a step that can be taken is taken
SpecRemove == InitRemove /\ [][NextRemove]_vars /\ WF_vars(NextRemove)

\* a call get_aux_primes(K, norm_bound, C_K, h_K, contains_imaginary_quadratic)
\* with the arguments get_pre_type_one_two_primes passes
InitAux ==
    /\ pc = "get_aux_primes"
    /\ raised = "None" /\ returned = NoValue
    /\ K \in AuxFields
    /\ norm_bound \in NormBounds
    /\ heavy_filter = FALSE /\ pop_order = "any"
    /\ contains_imaginary_quadratic = contains_imaginary_quadratic_field(K)[1]
    /\ aux_primes = <<>> /\ good_primes = <<>> /\ list_of_gens = <<>> /\ i = 0
    /\ IdleFn /\ IdleEps /\ IdleDiv /\ IdleFlags

NextAux == BeginAuxPrimes \/ TryGoodPrime \/ EndAuxPrimes

SpecAux == InitAux /\ [][NextAux]_vars

\* a call get_pre_type_one_two_primes(K, norm_bound, loop_curves, use_PIL,
\* heavy_filter)
Init ==
    /\ pc = "get_pre_type_one_two_primes"
    /\ raised = "None" /\ returned = NoValue
    /\ K \in PipelineFields
    /\ norm_bound \in {2, 6}
    /\ loop_curves \in BOOLEAN
    /\ use_PIL \in BOOLEAN
    /\ heavy_filter \in BOOLEAN
    /\ pop_order \in {"min", "max"}
    /\ backend \in Backends(K, use_PIL /\ class_number(K) > 1, heavy_filter)
    /\ IdleFn /\ IdleEps /\ IdleAux /\ IdleDiv

Next ==
    \/ CheckHilbertClassField
    \/ BeginAuxPrimes \/ TryGoodPrime \/ EndAuxPrimes
    \/ CallEpsilons
    \/ EnumerateEpsilons \/ PopEpsilon \/ ReturnEpsilonsOutput \/ TagEpsilons
    \/ ComputeUnitDivisibilities
    \/ ComputeTrackingDict
    \/ CollapseTrackingDict
    \/ UsePrincipalIdealLattice
    \/ HeavyFilter
    \/ SplitAndFilter

Spec == Init /\ [][Next]_vars

-----------------------------------------------------------------------------
(* Properties *)

Complement(eps) == [m \in DOMAIN eps |-> 12 - eps[m]]

FullEpsilonSet(n) ==
    {t \in [1..n -> {0, 4, 6, 8, 12}] :
        \E m \in 1..n : t[m] # t[1] \/ t[m] \in {4, 8}}

\* C3: remove_redundant_epsilons applied to the full epsilon key set of degree d
\* returns a set R whose redundant orbits cover the full set exactly, and no two
\* distinct elements of R lie in the same redundant orbit.
C3_Partition ==
    (pc \in {"tag_epsilons", "epsilons_done"} /\ ~heavy_filter) =>
        /\ UNION {get_redundant_epsilons(r, galgp) : r \in epsilons} = FullEpsilonSet(d)
        /\ \A r1 \in epsilons : \A r2 \in epsilons \ {r1} :
              r2 \notin get_redundant_epsilons(r1, galgp)

C3_Witness ==
    /\ pc = "epsilons_done" /\ ~heavy_filter /\ d = 2 /\ galgp = None
    /\ Cardinality(epsilons) = 11
    /\ <<12, 0>> \in epsilons /\ <<0, 4>> \in epsilons

\* C4: get_eps_type returns exactly one of the five types, each under the
\* condition the claim gives on the presence of 6, of 4 or 8, and on all entries
\* being equal.
C4_EpsType ==
    pc = "returned get_eps_type" =>
        LET has6 == \E m \in DOMAIN fn_eps : fn_eps[m] = 6
            has48 == \E m \in DOMAIN fn_eps : fn_eps[m] \in {4, 8}
            equal == \A m \in DOMAIN fn_eps : fn_eps[m] = fn_eps[1]
            t == returned.str
        IN  /\ returned.kind = "str"
            /\ t \in {"mixed", "sextic", "quartic-diagonal", "quartic-nondiagonal",
                      "quadratic"}
            /\ (t = "mixed") <=> (has6 /\ has48)
            /\ (t = "sextic") <=> (has6 /\ ~has48)
            /\ (t = "quartic-diagonal") <=> (~has6 /\ has48 /\ equal)
            /\ (t = "quartic-nondiagonal") <=> (~has6 /\ has48 /\ ~equal)
            /\ (t = "quadratic") <=> (~has6 /\ ~has48)

C4_Witness ==
    /\ pc = "returned get_eps_type"
    /\ fn_eps = <<8, 8>>
    /\ returned = StrValue("quartic-diagonal")

\* the condition of each type on a prime p of prime_list
MeetsCondition(eps_type, p) ==
    LET not_prime == p \notin K.inert
    IN  CASE eps_type = "quadratic" -> not_prime
          [] eps_type = "quartic-nondiagonal" -> p % 3 = 2 /\ not_prime
          [] eps_type = "quartic-diagonal" -> p % 3 = 2
          [] eps_type = "sextic" -> p % 4 = 3 /\ not_prime
          [] eps_type = "mixed" -> p % 12 = 1 /\ not_prime

\* s is t with the entries at some positions left out, the order kept
RECURSIVE IsSubsequence(_, _)
IsSubsequence(s, t) ==
    IF s = <<>> THEN TRUE
    ELSE IF t = <<>> THEN FALSE
    ELSE IF Head(s) = Head(t) /\ IsSubsequence(Tail(s), Tail(t)) THEN TRUE
    ELSE IsSubsequence(s, Tail(t))

Count(s, x) == Cardinality({m \in DOMAIN s : s[m] = x})

\* C7: for each of the five types filter_ABC_primes returns exactly the primes of
\* prime_list that meet the type's condition, in their input order, and adds none.
C7_Filter ==
    (pc = "left filter_ABC_primes" /\ fn_eps_type \in EpsTypes) =>
        /\ raised = "None"
        /\ returned.kind = "list"
        /\ IsSubsequence(returned.list, fn_prime_list)
        /\ \A p \in ModelPrimes :
              Count(returned.list, p) =
                  IF MeetsCondition(fn_eps_type, p) THEN Count(fn_prime_list, p) ELSE 0

C7_Witness ==
    /\ pc = "left filter_ABC_primes"
    /\ fn_eps_type = "quartic-diagonal"
    /\ K.inert = {11, 13}
    /\ fn_prime_list = <<11, 2>>
    /\ returned = ListValue(<<11, 2>>)

Unmatched(n) ==
    {g \in {gens(K)[k] : k \in DOMAIN gens(K)} :
        ~\E j \in 1..n : \E c \in DOMAIN primes_above(K, good_primes[j]) :
            primes_above(K, good_primes[j])[c].class = g}

\* the completely split rational primes up to 500 coprime to 6 * h_K, ascending
Pool ==
    SortedSeq({p \in ModelPrimes :
        /\ p <= 500
        /\ Len(K.primes_above[p]) = 2
        /\ p % 2 # 0 /\ p % 3 # 0
        /\ \A q \in 2..class_number(K) : ~(class_number(K) % q = 0 /\ p % q = 0)})

\* C2: with contains_imaginary_quadratic true get_aux_primes raises RuntimeError
\* exactly when the pool of completely split primes up to 500 coprime to 6 * h_K
\* is exhausted with a generator of C_K unmatched, and returns a list raising
\* nothing when every generator is matched.
C2_EmergencyExhaustion ==
    (contains_imaginary_quadratic /\ pc \in {"done", "get_aux_primes returned"}) =>
        /\ good_primes = Pool
        /\ (raised = "RuntimeError") <=> (i = Len(Pool) /\ Unmatched(i) # {})
        /\ (Unmatched(i) = {}) => (raised = "None" /\ pc = "get_aux_primes returned")
        /\ raised \in {"RuntimeError", "None"}
        /\ (raised = "None") <=> (pc = "get_aux_primes returned")

C2_Witness ==
    /\ contains_imaginary_quadratic /\ pc = "done" /\ raised = "RuntimeError"
    /\ Len(K.class_invs) = 2
    /\ i = 2 /\ Len(list_of_gens) = 1

\* C10: without a Galois group get_redundant_epsilons(eps) is exactly the set of
\* eps and its entrywise complement in 12; the complement of the complement is
\* eps, and the complement has the same redundant set.
C10_DualClosure ==
    (pc = "returned get_redundant_epsilons" /\ galgp = None) =>
        /\ returned = SetValue({fn_eps, Complement(fn_eps)})
        /\ Complement(Complement(fn_eps)) = fn_eps
        /\ get_redundant_epsilons(Complement(fn_eps), None) = returned.set

C10_Witness ==
    /\ pc = "returned get_redundant_epsilons" /\ galgp = None
    /\ fn_eps = <<0, 4>>
    /\ returned = SetValue({<<0, 4>>, <<12, 8>>})

\* C1: whenever contains_imaginary_quadratic_field(K) reports the Hilbert class
\* field of an imaginary quadratic subfield, get_pre_type_one_two_primes ends by
\* raising ValueError and returns no list, whatever norm_bound, loop_curves,
\* use_PIL and heavy_filter are, with no auxiliary prime, epsilon or tracking
\* value computed and no collaborator called.
C1_HilbertClassField ==
    (contains_imaginary_quadratic_field(K)[2] /\ pc # "get_pre_type_one_two_primes") =>
        /\ pc = "done" /\ raised = "ValueError" /\ returned = NoValue
        /\ aux_primes = <<>> /\ good_primes = <<>> /\ list_of_gens = <<>>
        /\ IdleEps
        /\ IdleDiv

C1_Witness ==
    /\ pc = "done" /\ raised = "ValueError"
    /\ contains_imaginary_quadratic_field(K)[2]
    /\ norm_bound = 6 /\ loop_curves /\ use_PIL /\ heavy_filter

\* what the same call returns with use_PIL false: the same auxiliary primes,
\* epsilons and tracking dict, and no gcd with the PIL integers
WithoutPIL ==
    split_and_filter(galois_closure(K), epsilons_dict,
                     [eps \in DOMAIN epsilons_dict |-> collapse(tracking_dict, eps)])

\* C5: for a field of class number > 1 and heavy_filter false, whenever the call
\* with use_PIL false returns a list, the call with use_PIL true returns a list
\* too and every prime of it is in the list of the call without PIL.
C5_PILShrinks ==
    (pc = "done" /\ use_PIL /\ class_number(K) > 1 /\ ~heavy_filter
        /\ DOMAIN tracking_dict_inv_collapsed # {} /\ WithoutPIL.raised = "None") =>
        /\ raised = "None"
        /\ returned.kind = "list"
        /\ ToSet(returned.list) \subseteq ToSet(WithoutPIL.output)

C5_Witness ==
    /\ pc = "done" /\ use_PIL /\ class_number(K) > 1 /\ ~heavy_filter
    /\ raised = "None"
    /\ InList("get_PIL_integers", calls)
    /\ WithoutPIL.raised = "None"
    /\ ToSet(returned.list) # ToSet(WithoutPIL.output)
    /\ returned.list # <<>>

StrictlyAscending(s) == \A j, k \in DOMAIN s : j < k => s[j] < s[k]

\* p passes filter_ABC_primes for the type
Passes(eps_type, p) ==
    filter_ABC_primes(galois_closure(K), <<p>>, eps_type).value = <<p>>

\* C6: with heavy_filter false and every collapsed tracking integer positive the
\* call returns a strictly ascending list of primes, and a prime p is in it if
\* and only if for some type t among the epsilons p divides the collapsed
\* integer of an epsilon of type t and p passes filter_ABC_primes for t.
C6_SortedUnion ==
    (pc = "done" /\ ~heavy_filter
        /\ DOMAIN tracking_dict_inv_collapsed # {}
        /\ \A eps \in DOMAIN tracking_dict_inv_collapsed :
              tracking_dict_inv_collapsed[eps] > 0) =>
        /\ raised = "None"
        /\ returned.kind = "list"
        /\ StrictlyAscending(returned.list)
        /\ ToSet(returned.list) \subseteq ModelPrimes
        /\ \A p \in ModelPrimes :
              InList(p, returned.list) <=>
                 \E eps \in DOMAIN epsilons_dict :
                    /\ tracking_dict_inv_collapsed[eps] % p = 0
                    /\ Passes(epsilons_dict[eps], p)

C6_Witness ==
    /\ pc = "done" /\ ~heavy_filter /\ raised = "None"
    /\ \A eps \in DOMAIN tracking_dict_inv_collapsed :
          tracking_dict_inv_collapsed[eps] > 0
    /\ Len(returned.list) >= 2
    /\ \E eps \in DOMAIN epsilons_dict : \E p \in ModelPrimes :
          /\ tracking_dict_inv_collapsed[eps] % p = 0
          /\ ~InList(p, returned.list)
    /\ \E eps \in DOMAIN epsilons_dict :
          is_perfect_power(type_integer(epsilons_dict, tracking_dict_inv_collapsed,
                                        epsilons_dict[eps]))

\* the collapsed tracking dict the heavy filter is given: the gcd over all
\* auxiliary primes, then the gcd with the PIL integers when that step is on
CollapsedForHeavyFilter ==
    [eps \in DOMAIN epsilons_dict |->
        IF use_PIL /\ class_number(K) > 1
        THEN refine(collapse(tracking_dict, eps), get_PIL_integers(DOMAIN epsilons_dict)[eps])
        ELSE collapse(tracking_dict, eps)]

\* C9: character_enumeration_filter is called only when heavy_filter is true,
\* and a call that reaches the filtering step with heavy_filter true calls it
\* exactly once, as its last step, after the collapse over all auxiliary primes
\* and after the PIL step when that is on; the call returns the delegate's
\* result as it is: no grouping by type, no filter_ABC_primes, no sort.
C9_HeavyFilterDelegation ==
    /\ Count(calls, "character_enumeration_filter") <= 1
    /\ InList("character_enumeration_filter", calls) => heavy_filter
    /\ (pc = "done" /\ raised = "None") =>
          (heavy_filter <=> InList("character_enumeration_filter", calls))
    /\ (heavy_filter /\ pc \in {"heavy_filter", "done"} /\ raised = "None") =>
          /\ DOMAIN tracking_dict = DOMAIN aux_primes
          /\ DOMAIN epsilons_dict = epsilons_keys(d)
          /\ tracking_dict_inv_collapsed = CollapsedForHeavyFilter
          /\ ~InList("filter_ABC_primes", calls)
          /\ final_split_dict = <<>>
    /\ InList("character_enumeration_filter", calls) =>
          /\ pc = "done" /\ raised = "None"
          /\ calls[Len(calls)] = "character_enumeration_filter"
          /\ InList("get_PIL_integers", calls) <=> (use_PIL /\ class_number(K) > 1)
          /\ returned = ListValue(backend.character_enumeration_filter)

C9_Witness ==
    /\ pc = "done" /\ heavy_filter
    /\ calls = <<"get_PIL_integers", "character_enumeration_filter">>
    /\ returned = ListValue(<<13, 2>>)
    /\ Cardinality(DOMAIN tracking_dict_inv_collapsed) = 22

\* the orbits of the redundancy relation that meet the set S
OrbitsMeeting(S, galois_group) ==
    {get_redundant_epsilons(e, galois_group) \cap S : e \in S}

\* C11: remove_redundant_epsilons terminates on every finite input set, and
\* whatever element each pop returns, the set it returns holds exactly one
\* epsilon of each orbit that meets the input set: their number depends on the
\* input set and the Galois group only, never on the order of the pops.
C11_PopOrderIndependence ==
    /\ [](pc = "tag_epsilons" =>
            /\ epsilons = epsilons_output
            /\ epsilons_output \subseteq fn_epsilons
            /\ Cardinality(epsilons_output) =
                  Cardinality(OrbitsMeeting(fn_epsilons, galgp))
            /\ \A orbit \in OrbitsMeeting(fn_epsilons, galgp) :
                  Cardinality(orbit \cap epsilons_output) = 1)
    /\ <>(pc = "tag_epsilons")

C11_Witness ==
    /\ pc = "tag_epsilons" /\ galgp # None
    /\ fn_epsilons = {<<0, 4>>, <<4, 0>>, <<6, 6>>}
    /\ epsilons_output = {<<4, 0>>, <<6, 6>>}

\* a divides b, in the integers: 0 divides only 0
Divides(a, b) == IF a = 0 THEN b = 0 ELSE b % a = 0

\* eps -> the gcd over all auxiliary primes q of
\* gcd(lcm(norm(q), AB_q[eps], C_q[eps]), U[eps])
GcdOverAuxPrimes ==
    LET AB == [n \in DOMAIN aux_primes |-> get_AB_integers(n, DOMAIN epsilons_dict)]
        C == [n \in DOMAIN aux_primes |->
                 get_C_integers(n, DOMAIN epsilons_dict, loop_curves)]
    IN  [eps \in DOMAIN tracking_dict_inv_collapsed |->
            gcd_list([n \in DOMAIN aux_primes |->
                gcd(lcm(aux_primes[n].norm, lcm(AB[n][eps], C[n][eps])),
                    divs_from_units[eps])])]

PILStepTaken == use_PIL /\ class_number(K) > 1

Appended(n) == SubSeq(aux_primes, n + 1, Len(aux_primes))

\* p is a rational prime that splits completely in K
SplitsCompletely(p) == Len(primes_above(K, p)) = K.absolute_degree

\* C13: when get_aux_primes returns, the sequence starts with the primes of norm
\* <= norm_bound in their order; every prime after them lies above a completely
\* split rational prime greater than norm_bound; with an imaginary quadratic
\* subfield every generator of C_K is the class of a prime of the sequence;
\* otherwise at most one prime is appended, and one is exactly when the first
\* completely split rational prime exceeds norm_bound.
C13_AuxPrimesShape ==
    pc = "get_aux_primes returned" =>
       \A base \in {primes_of_bounded_norm(K, norm_bound)} :
          /\ raised = "None"
          /\ Len(aux_primes) >= Len(base)
          /\ SubSeq(aux_primes, 1, Len(base)) = base
          /\ \A k \in DOMAIN Appended(Len(base)) :
                LET q == Appended(Len(base))[k]
                IN  /\ q.p > norm_bound
                    /\ q.p <= SplitPrimeBound
                    /\ SplitsCompletely(q.p)
                    /\ InList(q, primes_above(K, q.p))
          /\ contains_imaginary_quadratic =>
                \A k \in DOMAIN gens(K) :
                   \E j \in DOMAIN aux_primes : aux_primes[j].class = gens(K)[k]
          /\ ~contains_imaginary_quadratic =>
                /\ Len(Appended(Len(base))) <= 1
                /\ Len(Appended(Len(base))) = 1 <=>
                      completely_split_primes(K, SplitPrimeBound)[1] > norm_bound

\* two generators: one matched by a prime of the base set, one by an appended prime
C13_Witness ==
    /\ pc = "get_aux_primes returned" /\ contains_imaginary_quadratic
    /\ Len(gens(K)) = 2
    /\ Len(primes_of_bounded_norm(K, norm_bound)) >= 1
    /\ Len(Appended(Len(primes_of_bounded_norm(K, norm_bound)))) = 1
    /\ \E k \in DOMAIN gens(K) :
          ~\E j \in DOMAIN Appended(Len(primes_of_bounded_norm(K, norm_bound))) :
              Appended(Len(primes_of_bounded_norm(K, norm_bound)))[j].class = gens(K)[k]

====
